---- MODULE Spec2Model ----
(***************************************************************************)
(* Radial load-flow solver of powerflow-sim (src/services/loadFlowService  *)
(* .ts, calculateLoadFlow) as a state machine: one action per loop         *)
(* iteration or straight-line block of the function.  Spec runs the solver *)
(* on enumerated inputs and ends with the App's results memo (the value of *)
(* the solve, or the defaults of its catch block) and the summary table of *)
(* the PDF report; FairSpec is Spec with the fairness of a call that runs  *)
(* to completion.  EditorSpec runs the editing operations of the           *)
(* useNetworkState hook (undo history) from the default network; LongSpec  *)
(* runs reset, undo and redo alone, over a long undo stack.                *)
(*                                                                         *)
(* Numbers: the code computes in IEEE doubles.  Here every non-integer     *)
(* quantity is a fixed-point number with F units per 1.0 (two decimal      *)
(* digits); products and quotients round towards minus infinity.  Lengths, *)
(* loads, voltages, currents, losses are all held in this format, so 11 kV *)
(* is 1100 and a power factor of 0.9 is 90.                                *)
(***************************************************************************)
EXTENDS Integers, Sequences, FiniteSets, TLC

\* ---------------------------------------------------------------- numbers
\* One unit (1.0) of the fixed-point format.
F == 100

\* a * b on fixed-point operands (JS `*`); split so that the intermediate
\* product stays inside the 32-bit integers of the model checker.
FMul(a, b) == (a \div F) * b + ((a % F) * b) \div F

\* a / b on fixed-point operands (JS `/`), b # 0.
FDivPos(a, b) == (a \div b) * F + ((a % b) * F) \div b
FDiv(a, b) == IF b > 0 THEN FDivPos(a, b) ELSE FDivPos(-a, -b)

\* Integer square root (largest r with r*r <= x), by bisection on lo..hi.
RECURSIVE IsqrtIn(_, _, _)
IsqrtIn(x, lo, hi) ==
  IF lo >= hi THEN lo
  ELSE LET mid == (lo + hi + 1) \div 2
       IN IF mid * mid <= x THEN IsqrtIn(x, mid, hi) ELSE IsqrtIn(x, lo, mid - 1)

\* Math.sqrt on a fixed-point operand x >= 0: sqrt(x/F) * F = sqrt(x * F).
Sqrt(x) == IsqrtIn(x * F, 0, 46340)

\* Math.sqrt(3)
SQRT3 == Sqrt(3 * F)

\* Math.sin(Math.acos(c)) for 0 <= c <= 1: sqrt(1 - c^2), from the exact
\* square so that c = 1 gives 0 and c = 0 gives 1.
SinAcos(c) == IsqrtIn(F * F - c * c, 0, F)

\* Math.sqrt(a ** 2 + b ** 2), from the exact squares so that the magnitude
\* of (a, 0) is a, as it is in doubles.
Magnitude(a, b) == IsqrtIn(a * a + b * b, 0, 46340)

\* --------------------------------------------------------------- catalog
\* CONDUCTORS: resistancePerKm and maxCurrentAmps in fixed point; no entry
\* of the catalog has a reactancePerKm field.
CONDUCTORS == <<
  [id |-> "rabbit",  resistancePerKm |-> 54, maxCurrentAmps |-> 18000],
  [id |-> "raccoon", resistancePerKm |-> 37, maxCurrentAmps |-> 24000],
  [id |-> "dog",     resistancePerKm |-> 27, maxCurrentAmps |-> 30000],
  [id |-> "wolf",    resistancePerKm |-> 18, maxCurrentAmps |-> 41000],
  [id |-> "panther", resistancePerKm |-> 14, maxCurrentAmps |-> 48000] >>

\* A lookup whose default is the last entry of the catalog.
getConductorOrLast(id) ==
  IF \E k \in 1..Len(CONDUCTORS) : CONDUCTORS[k].id = id
  THEN CONDUCTORS[CHOOSE k \in 1..Len(CONDUCTORS) :
                    /\ CONDUCTORS[k].id = id
                    /\ \A j \in 1..(k - 1) : CONDUCTORS[j].id # id]
  ELSE CONDUCTORS[Len(CONDUCTORS)]

\* CONDUCTORS.find(c => c.id === id) || CONDUCTORS[0]
getConductor(id) ==
  IF \E k \in 1..Len(CONDUCTORS) : CONDUCTORS[k].id = id
  THEN CONDUCTORS[CHOOSE k \in 1..Len(CONDUCTORS) :
                    /\ CONDUCTORS[k].id = id
                    /\ \A j \in 1..(k - 1) : CONDUCTORS[j].id # id]
  ELSE CONDUCTORS[1]

\* conductor.reactancePerKm || 0
reactancePerKm(c) == IF "reactancePerKm" \in DOMAIN c THEN c.reactancePerKm ELSE 0

\* A resistance that takes the length in metres for kilometres.
SegmentResistancePerMetre(e) ==
  FMul(getConductor(e.conductorId).resistancePerKm, e.lengthMeters)

\* conductor.resistancePerKm * (lengthMeters / 1000)
SegmentResistance(e) ==
  FMul(getConductor(e.conductorId).resistancePerKm, FDiv(e.lengthMeters, 1000 * F))

\* ---------------------------------------------------------------- inputs
\* Most edges of an enumerated irregular network.
MaxEdges == 2

NodeNames == << "n1", "n2", "n3", "n4" >>
EdgeNames == << "e1", "e2", "e3", "e4" >>
\* The node ids of the irregular networks.
TopologyNames == << "n1", "n2", "n3" >>
\* A node id that no node of any enumerated list carries.
Ghost == "n9"
\* A conductor id that is not in the catalog.
UnknownConductor == "acsr-x"

\* NetworkNode (the fields the solver reads).
Node(id, type, loadKva, pf) ==
  [id |-> id, type |-> type, loadKva |-> loadKva, pf |-> pf]

\* NetworkEdge.
Edge(id, source, target, lengthMeters, conductorId) ==
  [id |-> id, source |-> source, target |-> target,
   lengthMeters |-> lengthMeters, conductorId |-> conductorId]

\* Irregular networks: three nodes of which at most one (at any position)
\* is the SOURCE, every node loaded with 50 kVA at pf 0.9, and up to MaxEdges
\* edges whose endpoints are arbitrary: self-loops, parallel edges, cycles,
\* islands and endpoints that name no node.  Edge j is 500*j m long; every
\* second edge carries an unknown conductor id.  Source voltage 0.4 kV.
TopologyNodes(s) ==
  [i \in 1..Len(TopologyNames) |->
     Node(TopologyNames[i], IF i = s THEN "SOURCE" ELSE "LOAD", 50 * F, 90)]

TopologyEndpoints == { TopologyNames[i] : i \in 1..Len(TopologyNames) } \cup { Ghost }

TopologyEdges(m, src, tgt) ==
  [j \in 1..m |->
     Edge(EdgeNames[j], src[j], tgt[j], 500 * j * F,
          IF j % 2 = 1 THEN "dog" ELSE UnknownConductor)]

\* The arguments (ns, es, kv) are one of the irregular networks.
TopologyInput(ns, es, kv) ==
  \E s \in 0..Len(TopologyNames), m \in 0..MaxEdges :
    \E src \in [1..m -> TopologyEndpoints], tgt \in [1..m -> TopologyEndpoints] :
      /\ ns = TopologyNodes(s)
      /\ es = TopologyEdges(m, src, tgt)
      /\ kv = 40

\* Radial feeders of four nodes with the SOURCE first: a chain, the same
\* chain with its middle edge labelled child -> parent, a fork (a one-edge
\* branch and a two-edge branch), and a chain that reaches n3 before n2, so
\* that the traversal order differs from the order of the node list.  Loads,
\* power factor, lengths and source voltage vary; the source itself carries
\* 20 kVA.
Shapes == {
  << <<"n1", "n2">>, <<"n2", "n3">>, <<"n3", "n4">> >>,
  << <<"n1", "n2">>, <<"n3", "n2">>, <<"n3", "n4">> >>,
  << <<"n1", "n2">>, <<"n1", "n3">>, <<"n3", "n4">> >>,
  << <<"n1", "n3">>, <<"n3", "n2">>, <<"n2", "n4">> >> }

FeederLoads == { 0, 10 * F, 50 * F }
FeederPfs == { 60, 100 }
FeederLengths == { 200 * F, 2000 * F }
FeederVoltages == { 40, 1100 }
FeederConductors == << "rabbit", "dog", UnknownConductor >>

FeederNodes(load, pf) ==
  [i \in 1..4 |->
     IF i = 1 THEN Node(NodeNames[1], "SOURCE", 20 * F, pf)
     ELSE Node(NodeNames[i], "LOAD", load[i], pf)]

FeederEdges(shape, len) ==
  [j \in 1..3 |->
     Edge(EdgeNames[j], shape[j][1], shape[j][2], len[j], FeederConductors[j])]

\* The arguments (ns, es, kv) are one of the radial feeders.
FeederInput(ns, es, kv) ==
  \E shape \in Shapes, load \in [2..4 -> FeederLoads], pf \in FeederPfs,
     len \in [1..3 -> FeederLengths], v \in FeederVoltages :
      /\ ns = FeederNodes(load, pf)
      /\ es = FeederEdges(shape, len)
      /\ kv = v

\* Meshed networks of the same four nodes and four edges: a triangle through
\* the source with a tail, a pair of parallel edges at the source followed
\* by a chain, and a self-loop on a load node with a cycle behind it.  Edge j
\* is 500*j m long and takes the j-th conductor of FeederConductors in turn.
Meshes == {
  << <<"n1", "n2">>, <<"n2", "n3">>, <<"n3", "n1">>, <<"n3", "n4">> >>,
  << <<"n1", "n2">>, <<"n2", "n1">>, <<"n2", "n3">>, <<"n4", "n3">> >>,
  << <<"n2", "n2">>, <<"n1", "n2">>, <<"n2", "n3">>, <<"n3", "n2">> >> }

MeshEdges(mesh) ==
  [j \in 1..Len(mesh) |->
     Edge(EdgeNames[j], mesh[j][1], mesh[j][2], 500 * j * F,
          FeederConductors[((j - 1) % Len(FeederConductors)) + 1])]

\* The arguments (ns, es, kv) are one of the meshed networks.
MeshInput(ns, es, kv) ==
  \E mesh \in Meshes, load \in [2..4 -> FeederLoads], pf \in FeederPfs,
     v \in FeederVoltages :
      /\ ns = FeederNodes(load, pf)
      /\ es = MeshEdges(mesh)
      /\ kv = v

\* ----------------------------------------------------------------- state
VARIABLES
  nodes, edges, sourceKv,        \* the arguments of calculateLoadFlow
  pc,                            \* position in calculateLoadFlow
  thrown,                        \* message of the exception raised, "" if none
  returned,                      \* << >> or << the returned object >>
  sourceNode,
  adjacency, parentMap, levelOrder, visited, queue,
  accumulatedLoad,
  i,                             \* index of the backward / forward sweep
  nodeResults, edgeResults,
  nodeDistances, maxDistance, farthestNodeId,
  totalLossKw, totalSystemLengthMeters, totalSystemResistanceOhms,
  minV, criticalNodeId, totalKva,
  longestPathEdgeIds, curr,
  criticalPathLengthMeters, criticalPathResistanceOhms,
  fallbackTaken,                 \* ids whose vBase came from `|| sourceKv`
  results,                       \* App: << >> or << the value of the results memo >>
  history,                       \* useNetworkState: [past, present, future]
  clock,                         \* the last value Date.now() returned
  report                         \* << >> or << the summary table of the PDF report >>

inputVars == << nodes, edges, sourceKv >>
topoVars == << sourceNode, adjacency, parentMap, levelOrder, visited, queue >>
sweepVars == << nodeResults, edgeResults, nodeDistances, maxDistance,
                farthestNodeId, totalLossKw, fallbackTaken >>
totalVars == << totalSystemLengthMeters, totalSystemResistanceOhms >>
statVars == << minV, criticalNodeId, totalKva >>
pathVars == << longestPathEdgeIds, curr, criticalPathLengthMeters,
               criticalPathResistanceOhms >>
solverVars == << inputVars, pc, thrown, returned, topoVars, accumulatedLoad, i,
                 sweepVars, totalVars, statVars, pathVars >>
appVars == << results, history, clock, report >>
vars == << solverVars, appVars >>

\* Value of a local that has not been assigned yet / of `null`.
NoNode == Node("", "NONE", 0, 0)
Null == ""
EmptyMap == [k \in {} |-> 0]

\* Map.set(k, v)
MapSet(m, k, v) == [x \in (DOMAIN m) \cup {k} |-> IF x = k THEN v ELSE m[x]]

\* ------------------------------------------------------ the edited network
\* NetworkNode with every field the editor keeps (x, y in pixels).
EditorNode(id, x, y, name, type, baseKv, loadKva, pf, loadType) ==
  [id |-> id, x |-> x, y |-> y, name |-> name, type |-> type, baseKv |-> baseKv,
   loadKva |-> loadKva, pf |-> pf, loadType |-> loadType]

INITIAL_NODES == <<
  EditorNode("n1", 100, 300, "N1 (Source)", "SOURCE", 11 * F, 0, 100, "Industrial"),
  EditorNode("n2", 300, 300, "N2", "LOAD", 11 * F, 50 * F, 90, "Residential"),
  EditorNode("n3", 500, 300, "N3", "LOAD", 11 * F, 80 * F, 85, "Commercial"),
  EditorNode("n4", 700, 300, "N4", "LOAD", 11 * F, 120 * F, 90, "Industrial"),
  EditorNode("n5", 500, 150, "N5", "LOAD", 11 * F, 40 * F, 95, "Residential"),
  EditorNode("n6", 700, 150, "N6", "LOAD", 11 * F, 30 * F, 90, "Residential") >>

INITIAL_EDGES == <<
  Edge("e1", "n1", "n2", 500 * F, "dog"),
  Edge("e2", "n2", "n3", 400 * F, "dog"),
  Edge("e3", "n3", "n4", 600 * F, "rabbit"),
  Edge("e4", "n2", "n5", 300 * F, "rabbit"),
  Edge("e5", "n5", "n6", 250 * F, "rabbit") >>

\* useState(() => ({ past: [], present: getInitialState(), future: [] })) with
\* nothing in local storage.
InitialHistory ==
  [past |-> << >>,
   present |-> [nodes |-> INITIAL_NODES, edges |-> INITIAL_EDGES],
   future |-> << >>]

\* Date.now() when the page is loaded, in ms: far above the numbers of the
\* default ids n1..n6 and e1..e5.
StartTime == 1000

\* The state of calculateLoadFlow before it is called.
SolverIdle ==
  /\ pc = "start"
  /\ thrown = ""
  /\ returned = << >>
  /\ sourceNode = NoNode
  /\ adjacency = EmptyMap
  /\ parentMap = EmptyMap
  /\ levelOrder = << >>
  /\ visited = {}
  /\ queue = << >>
  /\ accumulatedLoad = EmptyMap
  /\ i = 0
  /\ nodeResults = EmptyMap
  /\ edgeResults = EmptyMap
  /\ nodeDistances = EmptyMap
  /\ maxDistance = 0
  /\ farthestNodeId = Null
  /\ totalLossKw = 0
  /\ fallbackTaken = {}
  /\ totalSystemLengthMeters = 0
  /\ totalSystemResistanceOhms = 0
  /\ minV = 0
  /\ criticalNodeId = Null
  /\ totalKva = 0
  /\ longestPathEdgeIds = << >>
  /\ curr = Null
  /\ criticalPathLengthMeters = 0
  /\ criticalPathResistanceOhms = 0

\* The App before its first render of results.
AppIdle ==
  /\ results = << >>
  /\ history = InitialHistory
  /\ clock = StartTime
  /\ report = << >>

Init ==
  /\ \/ TopologyInput(nodes, edges, sourceKv)
     \/ FeederInput(nodes, edges, sourceKv)
     \/ MeshInput(nodes, edges, sourceKv)
  /\ SolverIdle
  /\ AppIdle

\* ------------------------------------------------------------- topology
\* edges.forEach(e => { ... adjacency.get(e.source).push(e);
\*                          adjacency.get(e.target).push(e) })
AddEdge(adj, e) ==
  LET a1 == IF e.source \in DOMAIN adj THEN adj ELSE MapSet(adj, e.source, << >>)
      a2 == IF e.target \in DOMAIN a1 THEN a1 ELSE MapSet(a1, e.target, << >>)
      a3 == [a2 EXCEPT ![e.source] = Append(@, e)]
  IN [a3 EXCEPT ![e.target] = Append(@, e)]

RECURSIVE BuildAdjacency(_, _)
BuildAdjacency(es, k) ==
  IF k = 0 THEN EmptyMap ELSE AddEdge(BuildAdjacency(es, k - 1), es[k])

\* A lookup that falls back to the first node when no SOURCE exists.
FindSourceOrFirst(ns) ==
  IF \E k \in 1..Len(ns) : ns[k].type = "SOURCE"
  THEN ns[CHOOSE k \in 1..Len(ns) :
            /\ ns[k].type = "SOURCE"
            /\ \A j \in 1..(k - 1) : ns[j].type # "SOURCE"]
  ELSE ns[1]

\* nodes.find(n => n.type === 'SOURCE')
FindSource(ns) ==
  IF \E k \in 1..Len(ns) : ns[k].type = "SOURCE"
  THEN ns[CHOOSE k \in 1..Len(ns) :
            /\ ns[k].type = "SOURCE"
            /\ \A j \in 1..(k - 1) : ns[j].type # "SOURCE"]
  ELSE NoNode

\* A neighbour lookup that follows the edge's label only.
NeighborDirected(edge, currentId) == edge.target

\* edge.source === currentId ? edge.target : edge.source
Neighbor(edge, currentId) ==
  IF edge.source = currentId THEN edge.target ELSE edge.source

\* A for-loop that goes through the neighbours from the last to the first.
RECURSIVE VisitNeighborsReversed(_, _, _, _)
VisitNeighborsReversed(neighbors, k, currentId, st) ==
  IF k > Len(neighbors) THEN st
  ELSE LET edge == neighbors[Len(neighbors) + 1 - k]
           neighborId == Neighbor(edge, currentId)
       IN IF neighborId \notin st.visited
          THEN VisitNeighborsReversed(neighbors, k + 1, currentId,
                 [visited |-> st.visited \cup {neighborId},
                  parentMap |-> MapSet(st.parentMap, neighborId,
                                       [parentId |-> currentId, edge |-> edge]),
                  queue |-> Append(st.queue, neighborId)])
          ELSE VisitNeighborsReversed(neighbors, k + 1, currentId, st)

\* The for-loop over the neighbours of currentId, from neighbour k on;
\* st = [visited, parentMap, queue].
RECURSIVE VisitNeighbors(_, _, _, _)
VisitNeighbors(neighbors, k, currentId, st) ==
  IF k > Len(neighbors) THEN st
  ELSE LET edge == neighbors[k]
           neighborId == Neighbor(edge, currentId)
       IN IF neighborId \notin st.visited
          THEN VisitNeighbors(neighbors, k + 1, currentId,
                 [visited |-> st.visited \cup {neighborId},
                  parentMap |-> MapSet(st.parentMap, neighborId,
                                       [parentId |-> currentId, edge |-> edge]),
                  queue |-> Append(st.queue, neighborId)])
          ELSE VisitNeighbors(neighbors, k + 1, currentId, st)

\* Lines 23-42: maps, source lookup, the fatal error, BFS set-up.
Start ==
  /\ pc = "start"
  /\ adjacency' = BuildAdjacency(edges, Len(edges))
  /\ LET found == FindSource(nodes)
     IN /\ sourceNode' = found
        /\ IF found = NoNode
           THEN /\ pc' = "threw"
                /\ thrown' = "No Source Node found"
                /\ UNCHANGED << visited, queue >>
           ELSE /\ pc' = "bfs"
                /\ queue' = << found.id >>
                /\ visited' = { found.id }
                /\ UNCHANGED thrown
  /\ UNCHANGED << appVars, inputVars, returned, parentMap, levelOrder, accumulatedLoad, i,
                  sweepVars, totalVars, statVars, pathVars >>

\* A loop iteration that records the visited node at the front of the
\* traversal order.
BfsStepPrepend ==
  /\ pc = "bfs"
  /\ queue # << >>
  /\ LET currentId == Head(queue)
         neighbors == IF currentId \in DOMAIN adjacency THEN adjacency[currentId] ELSE << >>
         st == VisitNeighbors(neighbors, 1, currentId,
                 [visited |-> visited, parentMap |-> parentMap, queue |-> Tail(queue)])
     IN /\ levelOrder' = << currentId >> \o levelOrder
        /\ visited' = st.visited
        /\ parentMap' = st.parentMap
        /\ queue' = st.queue
  /\ UNCHANGED << appVars, inputVars, pc, thrown, returned, sourceNode, adjacency,
                  accumulatedLoad, i, sweepVars, totalVars, statVars, pathVars >>

\* Lines 44-57: one iteration of `while (queue.length > 0)`.
BfsStep ==
  /\ pc = "bfs"
  /\ queue # << >>
  /\ LET currentId == Head(queue)
         neighbors == IF currentId \in DOMAIN adjacency THEN adjacency[currentId] ELSE << >>
         st == VisitNeighbors(neighbors, 1, currentId,
                 [visited |-> visited, parentMap |-> parentMap, queue |-> Tail(queue)])
     IN /\ levelOrder' = Append(levelOrder, currentId)
        /\ visited' = st.visited
        /\ parentMap' = st.parentMap
        /\ queue' = st.queue
  /\ UNCHANGED << appVars, inputVars, pc, thrown, returned, sourceNode, adjacency,
                  accumulatedLoad, i, sweepVars, totalVars, statVars, pathVars >>

\* ------------------------------------------------------- backward sweep
\* p = loadKva * pf, q = loadKva * sin(acos(pf))
OwnLoad(n) == [p |-> FMul(n.loadKva, n.pf), q |-> FMul(n.loadKva, SinAcos(n.pf))]

\* nodes.forEach(n => accumulatedLoad.set(n.id, { p, q }))
RECURSIVE InitialLoads(_, _)
InitialLoads(ns, k) ==
  IF k = 0 THEN EmptyMap ELSE MapSet(InitialLoads(ns, k - 1), ns[k].id, OwnLoad(ns[k]))

\* Lines 59-76: result maps, per-node loads, start of the backward loop.
InitLoads ==
  /\ pc = "bfs"
  /\ queue = << >>
  /\ accumulatedLoad' = InitialLoads(nodes, Len(nodes))
  /\ i' = Len(levelOrder)
  /\ pc' = "backward"
  /\ UNCHANGED << appVars, inputVars, thrown, returned, topoVars, sweepVars, totalVars,
                  statVars, pathVars >>

\* parentLoad.p += myLoad.p; parentLoad.q += myLoad.q
AddToParentRealOnly(acc, nodeId, parentId) ==
  [acc EXCEPT ![parentId] = [p |-> @.p + acc[nodeId].p, q |-> @.q]]

AddToParent(acc, nodeId, parentId) ==
  [acc EXCEPT ![parentId] = [p |-> @.p + acc[nodeId].p, q |-> @.q + acc[nodeId].q]]

\* Lines 76-89: one iteration of the backward loop (i counts 1-based here).
\* Reading .p of a load that accumulatedLoad does not hold raises TypeError.
BackwardStep ==
  /\ pc = "backward"
  /\ i >= 1
  /\ LET nodeId == levelOrder[i]
     IN IF nodeId = sourceNode.id \/ nodeId \notin DOMAIN parentMap
        THEN /\ i' = i - 1
             /\ UNCHANGED << pc, thrown, accumulatedLoad >>
        ELSE LET parentId == parentMap[nodeId].parentId
             IN IF nodeId \notin DOMAIN accumulatedLoad
                   \/ parentId \notin DOMAIN accumulatedLoad
                THEN /\ pc' = "threw"
                     /\ thrown' = "TypeError"
                     /\ UNCHANGED << i, accumulatedLoad >>
                ELSE /\ accumulatedLoad' = AddToParent(accumulatedLoad, nodeId, parentId)
                     /\ i' = i - 1
                     /\ UNCHANGED << pc, thrown >>
  /\ UNCHANGED << appVars, inputVars, returned, topoVars, sweepVars, totalVars, statVars,
                  pathVars >>

\* -------------------------------------------------------- forward sweep
\* edges.forEach(e => { totalSystemLengthMeters += ...; totalSystemResistanceOhms += ... })
RECURSIVE SystemTotals(_, _)
SystemTotals(es, k) ==
  IF k = 0 THEN [length |-> 0, resistance |-> 0]
  ELSE LET t == SystemTotals(es, k - 1)
       IN [length |-> t.length + es[k].lengthMeters,
           resistance |-> t.resistance + SegmentResistance(es[k])]

\* A source result whose per-unit value is taken against a nominal 11 kV.
SourceResultNominal(id, kv) ==
  [nodeId |-> id, voltageKv |-> kv, voltagePu |-> FDiv(kv, 11 * F), angleDegrees |-> 0,
   dropPercent |-> 0]

\* The NodeResult of the source (lines 102-108).
SourceResult(id, kv) ==
  [nodeId |-> id, voltageKv |-> kv, voltagePu |-> F, angleDegrees |-> 0,
   dropPercent |-> 0]

\* Lines 91-116: system totals, the source's result, distance tracking.
InitForward ==
  /\ pc = "backward"
  /\ i = 0
  /\ LET t == SystemTotals(edges, Len(edges))
     IN /\ totalSystemLengthMeters' = t.length
        /\ totalSystemResistanceOhms' = t.resistance
  /\ nodeResults' = MapSet(nodeResults, sourceNode.id, SourceResult(sourceNode.id, sourceKv))
  /\ nodeDistances' = MapSet(nodeDistances, sourceNode.id, 0)
  /\ maxDistance' = 0
  /\ farthestNodeId' = sourceNode.id
  /\ totalLossKw' = 0
  /\ i' = 1
  /\ pc' = "forward"
  /\ UNCHANGED << appVars, inputVars, thrown, returned, topoVars, accumulatedLoad,
                  edgeResults, fallbackTaken, statVars, pathVars >>

\* A direction test on the wrong endpoint.
isForwardFromTarget(edge, parentId) == edge.target = parentId

\* edge.source === parentInfo.parentId
isForward(edge, parentId) == edge.source = parentId

\* A current whose no-load default is 1.0 instead of 0.
currentAmpsIdleOne(sMagnitude, base) ==
  IF sMagnitude > 0 THEN FDiv(sMagnitude, FMul(SQRT3, base)) ELSE F

\* sMagnitude > 0 ? (sMagnitude / (Math.sqrt(3) * vBase)) : 0
currentAmps(sMagnitude, base) ==
  IF sMagnitude > 0 THEN FDiv(sMagnitude, FMul(SQRT3, base)) ELSE 0

\* sMagnitude > 0 ? downstreamS.p / sMagnitude : 1.0
flowPf(p, sMagnitude) == IF sMagnitude > 0 THEN FDiv(p, sMagnitude) ELSE F

\* parentResult.voltageKv || sourceKv
vBase(parentVoltageKv, kv) == IF parentVoltageKv # 0 THEN parentVoltageKv ELSE kv

\* Lines 138-156: the electrical quantities of the segment parent -> node.
Segment(edge, downstreamS, parentVoltageKv, kv) ==
  LET conductor == getConductor(edge.conductorId)
      sMagnitude == Magnitude(downstreamS.p, downstreamS.q)
      amps == currentAmps(sMagnitude, vBase(parentVoltageKv, kv))
      rTotal == FMul(conductor.resistancePerKm, FDiv(edge.lengthMeters, 1000 * F))
      xTotal == FMul(reactancePerKm(conductor), FDiv(edge.lengthMeters, 1000 * F))
      pfFlow == flowPf(downstreamS.p, sMagnitude)
      sinPhi == SinAcos(pfFlow)
      vDropLine == FDiv(FMul(FMul(SQRT3, amps),
                             FMul(rTotal, pfFlow) + FMul(xTotal, sinPhi)), 1000 * F)
      nodeVoltageKv == parentVoltageKv - vDropLine
      nodeVoltagePu == FDiv(nodeVoltageKv, kv)
      lossKw == FDiv(FMul(3 * FMul(amps, amps), rTotal), 1000 * F)
  IN [currentAmps |-> amps,
      loadingPercent |-> FDiv(amps, conductor.maxCurrentAmps) * 100,
      vDropLine |-> vDropLine,
      nodeVoltageKv |-> nodeVoltageKv,
      nodeVoltagePu |-> nodeVoltagePu,
      dropPercent |-> (F - nodeVoltagePu) * 100,
      lossKw |-> lossKw]

\* A total that is assigned where it should be added to.
AddLossOverwrite(total, lossKw) == lossKw

\* totalLossKw += lossKw
AddLoss(total, lossKw) == total + lossKw

\* A comparison that keeps the nearest node instead of the farthest.
FartherInverted(currentDist, maxDist) == currentDist < maxDist

\* currentDist > maxDistance
Farther(currentDist, maxDist) == currentDist > maxDist

\* Line 118: `for (const nodeId of levelOrder)` moves on to the next element.
ForwardAdvance ==
  /\ pc = "forward"
  /\ i <= Len(levelOrder)
  /\ i' = i + 1

\* Lines 118-175: one iteration of `for (const nodeId of levelOrder)`.
ForwardStep ==
  /\ ForwardAdvance
  /\ LET nodeId == levelOrder[i]
     IN IF nodeId = sourceNode.id
        THEN UNCHANGED sweepVars
        ELSE LET parentInfo == parentMap[nodeId]
                 parentResult == nodeResults[parentInfo.parentId]
                 edge == parentInfo.edge
                 parentDist == IF parentInfo.parentId \in DOMAIN nodeDistances
                               THEN nodeDistances[parentInfo.parentId] ELSE 0
                 currentDist == parentDist + edge.lengthMeters
                 seg == Segment(edge, accumulatedLoad[nodeId], parentResult.voltageKv,
                                sourceKv)
             IN /\ nodeDistances' = MapSet(nodeDistances, nodeId, currentDist)
                /\ IF Farther(currentDist, maxDistance)
                   THEN maxDistance' = currentDist /\ farthestNodeId' = nodeId
                   ELSE UNCHANGED << maxDistance, farthestNodeId >>
                /\ fallbackTaken' = IF parentResult.voltageKv # 0 THEN fallbackTaken
                                    ELSE fallbackTaken \cup {nodeId}
                /\ totalLossKw' = AddLoss(totalLossKw, seg.lossKw)
                /\ nodeResults' = MapSet(nodeResults, nodeId,
                     [nodeId |-> nodeId, voltageKv |-> seg.nodeVoltageKv,
                      voltagePu |-> seg.nodeVoltagePu, angleDegrees |-> 0,
                      dropPercent |-> seg.dropPercent])
                /\ edgeResults' = MapSet(edgeResults, edge.id,
                     [edgeId |-> edge.id, currentAmps |-> seg.currentAmps,
                      loadingPercent |-> seg.loadingPercent,
                      powerLossKw |-> seg.lossKw, voltageDropKv |-> seg.vDropLine,
                      isForward |-> isForward(edge, parentInfo.parentId)])
  /\ UNCHANGED << appVars, inputVars, pc, thrown, returned, topoVars, accumulatedLoad,
                  totalVars, statVars, pathVars >>

\* ------------------------------------------------- summary and the paths
\* A scan that records the critical node but leaves minV at its start value.
RECURSIVE StatsScanKeepsMin(_, _, _)
StatsScanKeepsMin(ns, k, res) ==
  IF k = 0 THEN [minV |-> F, criticalNodeId |-> Null, totalKva |-> 0]
  ELSE LET st == StatsScanKeepsMin(ns, k - 1, res)
           n == ns[k]
       IN IF n.id \in DOMAIN res /\ res[n.id].voltagePu < st.minV
          THEN [minV |-> st.minV, criticalNodeId |-> n.id,
                totalKva |-> st.totalKva + n.loadKva]
          ELSE [st EXCEPT !.totalKva = @ + n.loadKva]

\* A scan that adds up the load of the nodes that have a result only.
RECURSIVE StatsScanReachableOnly(_, _, _)
StatsScanReachableOnly(ns, k, res) ==
  IF k = 0 THEN [minV |-> F, criticalNodeId |-> Null, totalKva |-> 0]
  ELSE LET st == StatsScanReachableOnly(ns, k - 1, res)
           n == ns[k]
       IN IF n.id \notin DOMAIN res THEN st
          ELSE IF res[n.id].voltagePu < st.minV
          THEN [minV |-> res[n.id].voltagePu, criticalNodeId |-> n.id,
                totalKva |-> st.totalKva + n.loadKva]
          ELSE [st EXCEPT !.totalKva = @ + n.loadKva]

\* A scan whose comparison is <=, so that a later equal voltage replaces
\* the node found first.
RECURSIVE StatsScanLastMin(_, _, _)
StatsScanLastMin(ns, k, res) ==
  IF k = 0 THEN [minV |-> F, criticalNodeId |-> Null, totalKva |-> 0]
  ELSE LET st == StatsScanLastMin(ns, k - 1, res)
           n == ns[k]
       IN IF n.id \in DOMAIN res /\ res[n.id].voltagePu <= st.minV
          THEN [minV |-> res[n.id].voltagePu, criticalNodeId |-> n.id,
                totalKva |-> st.totalKva + n.loadKva]
          ELSE [st EXCEPT !.totalKva = @ + n.loadKva]

\* Lines 178-189: nodes.forEach(n => { totalKva += ...; if (res && res.voltagePu < minV) ... })
RECURSIVE StatsScan(_, _, _)
StatsScan(ns, k, res) ==
  IF k = 0 THEN [minV |-> F, criticalNodeId |-> Null, totalKva |-> 0]
  ELSE LET st == StatsScan(ns, k - 1, res)
           n == ns[k]
       IN IF n.id \in DOMAIN res /\ res[n.id].voltagePu < st.minV
          THEN [minV |-> res[n.id].voltagePu, criticalNodeId |-> n.id,
                totalKva |-> st.totalKva + n.loadKva]
          ELSE [st EXCEPT !.totalKva = @ + n.loadKva]

\* Lines 177-194: the scan, then the set-up of the longest-path walk.
SystemStats ==
  /\ pc = "forward"
  /\ i > Len(levelOrder)
  /\ LET st == StatsScan(nodes, Len(nodes), nodeResults)
     IN /\ minV' = st.minV
        /\ criticalNodeId' = st.criticalNodeId
        /\ totalKva' = st.totalKva
  /\ longestPathEdgeIds' = << >>
  /\ curr' = farthestNodeId
  /\ pc' = "longest"
  /\ UNCHANGED << appVars, inputVars, thrown, returned, topoVars, accumulatedLoad, i,
                  sweepVars, totalVars, criticalPathLengthMeters,
                  criticalPathResistanceOhms >>

\* if (start && start !== source) while (curr !== source) { if (!info) break; ... }
Walking(start) ==
  /\ start # Null
  /\ start # sourceNode.id
  /\ curr # sourceNode.id
  /\ curr \in DOMAIN parentMap

\* Lines 195-200: one iteration of the longest-path walk.
LongestStep ==
  /\ pc = "longest"
  /\ Walking(farthestNodeId)
  /\ longestPathEdgeIds' = Append(longestPathEdgeIds, parentMap[curr].edge.id)
  /\ curr' = parentMap[curr].parentId
  /\ UNCHANGED << appVars, inputVars, pc, thrown, returned, topoVars, accumulatedLoad, i,
                  sweepVars, totalVars, statVars, criticalPathLengthMeters,
                  criticalPathResistanceOhms >>

\* A set-up that starts the second walk at the farthest node again.
InitCriticalFromFarthest ==
  /\ pc = "longest"
  /\ ~Walking(farthestNodeId)
  /\ criticalPathLengthMeters' = 0
  /\ criticalPathResistanceOhms' = 0
  /\ curr' = farthestNodeId
  /\ pc' = "critical"
  /\ UNCHANGED << appVars, inputVars, thrown, returned, topoVars, accumulatedLoad, i,
                  sweepVars, totalVars, statVars, longestPathEdgeIds >>

\* Lines 203-209: set-up of the critical-path walk.
InitCritical ==
  /\ pc = "longest"
  /\ ~Walking(farthestNodeId)
  /\ criticalPathLengthMeters' = 0
  /\ criticalPathResistanceOhms' = 0
  /\ curr' = criticalNodeId
  /\ pc' = "critical"
  /\ UNCHANGED << appVars, inputVars, thrown, returned, topoVars, accumulatedLoad, i,
                  sweepVars, totalVars, statVars, longestPathEdgeIds >>

\* Lines 210-220: one iteration of the critical-path walk.
CriticalStep ==
  /\ pc = "critical"
  /\ Walking(criticalNodeId)
  /\ criticalPathLengthMeters' = criticalPathLengthMeters + parentMap[curr].edge.lengthMeters
  /\ criticalPathResistanceOhms' =
       criticalPathResistanceOhms + SegmentResistance(parentMap[curr].edge)
  /\ curr' = parentMap[curr].parentId
  /\ UNCHANGED << appVars, inputVars, pc, thrown, returned, topoVars, accumulatedLoad, i,
                  sweepVars, totalVars, statVars, longestPathEdgeIds >>

\* totalKva > 0 ? (1 - (totalLossKw / (totalKva * 0.9 + totalLossKw))) * 100 : 100
feederEfficiency(kva, loss) ==
  IF kva > 0 THEN (F - FDiv(loss, FMul(kva, 90) + loss)) * 100 ELSE 100 * F

\* Lines 223-238: the returned object.
Return ==
  /\ pc = "critical"
  /\ ~Walking(criticalNodeId)
  /\ returned' = << [nodeResults |-> nodeResults,
                     edgeResults |-> edgeResults,
                     systemResult |->
                       [totalLoadKva |-> totalKva,
                        totalLossKw |-> totalLossKw,
                        minVoltagePu |-> minV,
                        criticalNodeId |-> criticalNodeId,
                        feederEfficiency |-> feederEfficiency(totalKva, totalLossKw),
                        longestPathEdgeIds |-> longestPathEdgeIds,
                        totalSystemLengthMeters |-> totalSystemLengthMeters,
                        totalSystemResistanceOhms |-> totalSystemResistanceOhms,
                        criticalPathLengthMeters |-> criticalPathLengthMeters,
                        criticalPathResistanceOhms |-> criticalPathResistanceOhms]] >>
  /\ pc' = "done"
  /\ UNCHANGED << appVars, inputVars, thrown, topoVars, accumulatedLoad, i, sweepVars,
                  totalVars, statVars, pathVars >>

\* ------------------------------------------------------------------ App
\* A catch block that reports no loss as a perfect feeder.
AppDefaultsPerfectFeeder ==
  [nodeResults |-> EmptyMap,
   edgeResults |-> EmptyMap,
   systemResult |->
     [totalLoadKva |-> 0, totalLossKw |-> 0, minVoltagePu |-> F,
      criticalNodeId |-> Null, feederEfficiency |-> 100 * F,
      longestPathEdgeIds |-> << >>, totalSystemLengthMeters |-> 0,
      totalSystemResistanceOhms |-> 0, criticalPathLengthMeters |-> 0,
      criticalPathResistanceOhms |-> 0]]

\* The object the catch block of the results memo returns.
AppDefaults ==
  [nodeResults |-> EmptyMap,
   edgeResults |-> EmptyMap,
   systemResult |->
     [totalLoadKva |-> 0, totalLossKw |-> 0, minVoltagePu |-> 0,
      criticalNodeId |-> Null, feederEfficiency |-> 0,
      longestPathEdgeIds |-> << >>, totalSystemLengthMeters |-> 0,
      totalSystemResistanceOhms |-> 0, criticalPathLengthMeters |-> 0,
      criticalPathResistanceOhms |-> 0]]

\* try { return calculateLoadFlow(nodes, edges, sourceKv) }
ResultsMemo ==
  /\ pc = "done"
  /\ results = << >>
  /\ results' = returned
  /\ UNCHANGED << solverVars, history, clock, report >>

\* catch (e) { console.error(e); return { ...defaults } }
ResultsCatch ==
  /\ pc = "threw"
  /\ results = << >>
  /\ results' = << AppDefaults >>
  /\ UNCHANGED << solverVars, history, clock, report >>

\* ---------------------------------------------------------- reportService
\* summaryData of generatePDFReport: the numbers of the rows 'Total Connected
\* Load', 'Total System Losses' and 'Feeder Efficiency'. toFixed(2) prints
\* two decimals, which is what the fixed-point format carries.
summaryData(systemResult) ==
  [totalConnectedLoad |-> systemResult.totalLoadKva,
   totalSystemLosses |-> systemResult.totalLossKw,
   feederEfficiency |-> FMul(systemResult.feederEfficiency, 100 * F)]

\* handleReport: generatePDFReport(nodes, edges, ..., results.systemResult, ...)
HandleReport ==
  /\ results # << >>
  /\ report = << >>
  /\ report' = << summaryData(results[1].systemResult) >>
  /\ UNCHANGED << solverVars, results, history, clock >>

Next ==
  \/ Start
  \/ BfsStep
  \/ InitLoads
  \/ BackwardStep
  \/ InitForward
  \/ ForwardStep
  \/ SystemStats
  \/ LongestStep
  \/ InitCritical
  \/ CriticalStep
  \/ Return
  \/ ResultsMemo
  \/ ResultsCatch
  \/ HandleReport

Spec == Init /\ [][Next]_vars

\* Every statement of calculateLoadFlow and of the memo around it other than
\* the forward loop's.
OutsideForward ==
  \/ Start
  \/ BfsStep
  \/ InitLoads
  \/ BackwardStep
  \/ InitForward
  \/ SystemStats
  \/ LongestStep
  \/ InitCritical
  \/ CriticalStep
  \/ Return
  \/ ResultsMemo
  \/ ResultsCatch

\* calculateLoadFlow and the memo around it run to completion once called:
\* no statement that can be executed is put off for ever. The forward loop's
\* fairness is stated on its loop header, which every ForwardStep implies.
Fairness == WF_vars(OutsideForward) /\ WF_i(ForwardAdvance)

FairSpec == Init /\ [][Next]_vars /\ Fairness

\* ------------------------------------------------------- useNetworkState
\* Most entries of history.past in an explored editing session.
MaxHistory == 2
\* Most milliseconds the clock advances in an explored editing session.
MaxTicks == 1

\* nodes.find(n => n.type === 'SOURCE')?.baseKv || 11
AppSourceKv(ns) ==
  LET found == FindSource(ns)
  IN IF found # NoNode /\ found.baseKv # 0 THEN found.baseKv ELSE 11 * F

\* An undo that does not keep the network it leaves.
undoForgetsPresent(h) ==
  IF Len(h.past) = 0 THEN h
  ELSE [past |-> SubSeq(h.past, 1, Len(h.past) - 1),
        present |-> h.past[Len(h.past)],
        future |-> h.future]

\* undo: setHistory(curr => ...)
undo(h) ==
  IF Len(h.past) = 0 THEN h
  ELSE [past |-> SubSeq(h.past, 1, Len(h.past) - 1),
        present |-> h.past[Len(h.past)],
        future |-> << h.present >> \o h.future]

\* redo: setHistory(curr => ...)
redo(h) ==
  IF Len(h.future) = 0 THEN h
  ELSE [past |-> Append(h.past, h.present),
        present |-> h.future[1],
        future |-> Tail(h.future)]

\* updateNodeMove(id, x, y)
updateNodeMove(h, id, x, y) ==
  [past |-> Append(h.past, h.present),
   present |-> [h.present EXCEPT !.nodes =
                  [k \in 1..Len(@) |->
                     IF @[k].id = id THEN [@[k] EXCEPT !.x = x, !.y = y] ELSE @[k]]],
   future |-> << >>]

\* updateEdge(updatedEdge)
updateEdge(h, updatedEdge) ==
  [past |-> Append(h.past, h.present),
   present |-> [h.present EXCEPT !.edges =
                  [k \in 1..Len(@) |->
                     IF @[k].id = updatedEdge.id THEN updatedEdge ELSE @[k]]],
   future |-> << >>]

\* The type of the first node of ns that carries id, "" when there is none
\* (node?.type).
TypeOf(ns, id) ==
  IF \E k \in 1..Len(ns) : ns[k].id = id
  THEN ns[CHOOSE k \in 1..Len(ns) :
            ns[k].id = id /\ \A j \in 1..(k - 1) : ns[j].id # id].type
  ELSE Null

\* A deletion of a node that leaves the edges of the node in place.
deleteSelectionKeepsEdges(h, selection) ==
  IF selection.id = Null THEN h
  ELSE IF selection.type = "NODE" /\ TypeOf(h.present.nodes, selection.id) = "SOURCE"
  THEN h
  ELSE LET KeepNode(n) == n.id # selection.id
           OtherEdge(e) == e.id # selection.id
       IN [past |-> Append(h.past, h.present),
           present |->
             IF selection.type = "NODE"
             THEN [nodes |-> SelectSeq(h.present.nodes, KeepNode),
                   edges |-> h.present.edges]
             ELSE IF selection.type = "EDGE"
             THEN [nodes |-> h.present.nodes,
                   edges |-> SelectSeq(h.present.edges, OtherEdge)]
             ELSE h.present,
           future |-> << >>]

\* A deletion without the guard on the SOURCE node.
deleteSelectionUnguarded(h, selection) ==
  IF selection.id = Null THEN h
  ELSE LET KeepNode(n) == n.id # selection.id
           KeepEdge(e) == e.source # selection.id /\ e.target # selection.id
           OtherEdge(e) == e.id # selection.id
       IN [past |-> Append(h.past, h.present),
           present |->
             IF selection.type = "NODE"
             THEN [nodes |-> SelectSeq(h.present.nodes, KeepNode),
                   edges |-> SelectSeq(h.present.edges, KeepEdge)]
             ELSE IF selection.type = "EDGE"
             THEN [nodes |-> h.present.nodes,
                   edges |-> SelectSeq(h.present.edges, OtherEdge)]
             ELSE h.present,
           future |-> << >>]

\* deleteSelection(selection, setSelection): the new history.
deleteSelection(h, selection) ==
  IF selection.id = Null THEN h
  ELSE IF selection.type = "NODE" /\ TypeOf(h.present.nodes, selection.id) = "SOURCE"
  THEN h
  ELSE LET KeepNode(n) == n.id # selection.id
           KeepEdge(e) == e.source # selection.id /\ e.target # selection.id
           OtherEdge(e) == e.id # selection.id
       IN [past |-> Append(h.past, h.present),
           present |->
             IF selection.type = "NODE"
             THEN [nodes |-> SelectSeq(h.present.nodes, KeepNode),
                   edges |-> SelectSeq(h.present.edges, KeepEdge)]
             ELSE IF selection.type = "EDGE"
             THEN [nodes |-> h.present.nodes,
                   edges |-> SelectSeq(h.present.edges, OtherEdge)]
             ELSE h.present,
           future |-> << >>]

\* createBranch(sourceNodeId, sourceKv); t1 and t2 are what the two calls
\* of Date.now() return.
createBranch(h, sourceNodeId, kv, t1, t2) ==
  IF \A k \in 1..Len(h.present.nodes) : h.present.nodes[k].id # sourceNodeId
  THEN h
  ELSE LET ns == h.present.nodes
           from == ns[CHOOSE k \in 1..Len(ns) :
                        ns[k].id = sourceNodeId /\ \A j \in 1..(k - 1) : ns[j].id # sourceNodeId]
           newId == "n" \o ToString(t1)
           newNode == EditorNode(newId, from.x + 100, from.y + 50,
                                 "N" \o ToString(Len(ns) + 1), "LOAD", kv, 10 * F, 90,
                                 "Residential")
           newEdge == Edge("e" \o ToString(t2), sourceNodeId, newId, 200 * F, "rabbit")
       IN [past |-> Append(h.past, h.present),
           present |-> [nodes |-> Append(ns, newNode),
                        edges |-> Append(h.present.edges, newEdge)],
           future |-> << >>]

\* A reset that replaces the present network without keeping it.
resetDropsPresent(h) ==
  [past |-> h.past,
   present |-> [nodes |-> INITIAL_NODES, edges |-> INITIAL_EDGES],
   future |-> << >>]

\* reset()
reset(h) ==
  [past |-> Append(h.past, h.present),
   present |-> [nodes |-> INITIAL_NODES, edges |-> INITIAL_EDGES],
   future |-> << >>]

\* What a user picks in the present network: the first, the second or the
\* last element of a list.
Picks(list) == { list[k].id : k \in { 1, 2, Len(list) } \cap (1..Len(list)) }
PresentNodeIds == { history.present.nodes[k].id : k \in 1..Len(history.present.nodes) }

\* Selections: a picked node, a picked edge, an id that names nothing (a
\* selection left over from an earlier network), and the empty selection.
Selections ==
  { [type |-> "NODE", id |-> id] : id \in Picks(history.present.nodes) \cup { Ghost } }
    \cup { [type |-> "EDGE", id |-> id] : id \in Picks(history.present.edges) \cup { Ghost } }
    \cup { [type |-> Null, id |-> Null] }

\* Where a dragged node is dropped.
DropPoints == { << 150, 350 >> }

\* The edits of the property panel to the first and the last edge: a new
\* length or another conductor.
EdgeEdits ==
  LET es == history.present.edges
  IN UNION { { [es[k] EXCEPT !.lengthMeters = 1000 * F],
               [es[k] EXCEPT !.conductorId = "wolf"] } : k \in { 1, Len(es) } \ { 0 } }

\* An edit is pushed while the explored session has room for it.
Room == Len(history.past) < MaxHistory

\* What Date.now() can return after it returned t.
Ticks(t) == { u \in { t, t + 1 } : u <= StartTime + MaxTicks }

Undo ==
  /\ history' = undo(history)
  /\ UNCHANGED << solverVars, results, clock, report >>

Redo ==
  /\ history' = redo(history)
  /\ UNCHANGED << solverVars, results, clock, report >>

UpdateNodeMove ==
  /\ Room
  /\ \E k \in { 1, Len(history.present.nodes) }, at \in DropPoints :
       history' = updateNodeMove(history, history.present.nodes[k].id, at[1], at[2])
  /\ UNCHANGED << solverVars, results, clock, report >>

UpdateEdge ==
  /\ Room
  /\ \E updatedEdge \in EdgeEdits : history' = updateEdge(history, updatedEdge)
  /\ UNCHANGED << solverVars, results, clock, report >>

\* handleDelete: deleteSelection(selection, setSelection)
DeleteSelection ==
  /\ Room
  /\ \E selection \in Selections : history' = deleteSelection(history, selection)
  /\ UNCHANGED << solverVars, results, clock, report >>

\* handleCreateBranch: createBranch(sourceNodeId, sourceKv); the clock stands
\* still or advances by a millisecond before each call of Date.now().
CreateBranch ==
  /\ Room
  /\ \E sourceNodeId \in Picks(history.present.nodes) \cup { Ghost } :
       \E t1 \in Ticks(clock) :
         \E t2 \in Ticks(t1) :
           /\ history' = createBranch(history, sourceNodeId,
                                      AppSourceKv(history.present.nodes), t1, t2)
           /\ clock' = IF sourceNodeId \in PresentNodeIds THEN t2 ELSE clock
  /\ UNCHANGED << solverVars, results, report >>

Reset ==
  /\ Room
  /\ history' = reset(history)
  /\ UNCHANGED << solverVars, results, clock, report >>

EditorInit ==
  /\ nodes = << >>
  /\ edges = << >>
  /\ sourceKv = 0
  /\ SolverIdle
  /\ AppIdle

EditorNext ==
  \/ Undo
  \/ Redo
  \/ UpdateNodeMove
  \/ UpdateEdge
  \/ DeleteSelection
  \/ CreateBranch
  \/ Reset

EditorSpec == EditorInit /\ [][EditorNext]_vars

\* A long session: the default network is restored over and over, with undo
\* and redo in between.
\* Most entries of history.past in an explored long session.
MaxPushes == 51

\* reset() in a long session.
ResetAgain ==
  /\ Len(history.past) < MaxPushes
  /\ history' = reset(history)
  /\ UNCHANGED << solverVars, results, clock, report >>

LongNext ==
  \/ ResetAgain
  \/ Undo
  \/ Redo

LongSpec == EditorInit /\ [][LongNext]_vars

\* ================================================================ claims
HasSource(ns) == \E k \in 1..Len(ns) : ns[k].type = "SOURCE"
NodeIdsOf(ns) == { ns[k].id : k \in 1..Len(ns) }
UniqueNodeIds == \A j, k \in 1..Len(nodes) : nodes[j].id = nodes[k].id => j = k
UniqueEdgeIds == \A j, k \in 1..Len(edges) : edges[j].id = edges[k].id => j = k
Done == pc = "done"
Result == returned[1]

\* Ids joined to the ids of S by one edge, in either direction.
Step(S) ==
  S \cup { edges[k].target : k \in { j \in 1..Len(edges) : edges[j].source \in S } }
    \cup { edges[k].source : k \in { j \in 1..Len(edges) : edges[j].target \in S } }

RECURSIVE Closure(_)
Closure(S) == IF Step(S) = S THEN S ELSE Closure(Step(S))

\* The id of the first SOURCE node of the input.
SourceId ==
  nodes[CHOOSE k \in 1..Len(nodes) :
          /\ nodes[k].type = "SOURCE"
          /\ \A j \in 1..(k - 1) : nodes[j].type # "SOURCE"].id

\* The ids connected to the source by some path of edges.
Connected == Closure({ SourceId })

\* C1: when the node list holds no SOURCE node the solve raises the fatal
\* error "No Source Node found" and returns nothing, whatever the edges.
NoSourceRaisesFatal ==
  (~HasSource(nodes) /\ pc # "start") =>
     /\ pc = "threw"
     /\ thrown = "No Source Node found"
     /\ returned = << >>
     /\ nodeResults = EmptyMap
     /\ edgeResults = EmptyMap

NoSourceWitness ==
  /\ ~HasSource(nodes)
  /\ Len(edges) > 0
  /\ pc = "threw"

\* C2: after a successful solve on unique ids the keys of the NodeResult
\* map are exactly the nodes connected to the source, and no edge incident
\* to an unconnected node has an EdgeResult.
ResultsOnlyForConnected ==
  (Done /\ UniqueNodeIds /\ UniqueEdgeIds) =>
     /\ DOMAIN Result.nodeResults = Connected
     /\ \A k \in 1..Len(edges) :
          (edges[k].source \notin Connected \/ edges[k].target \notin Connected)
             => edges[k].id \notin DOMAIN Result.edgeResults

UnconnectedWitness ==
  /\ Done
  /\ \E k \in 1..Len(edges) :
       /\ edges[k].source \notin Connected
       /\ edges[k].source \in NodeIdsOf(nodes)
  /\ \E k \in 1..Len(edges) : edges[k].target \in Connected /\ edges[k].target # SourceId
  /\ DOMAIN Result.edgeResults # {}

\* A tree network: unique ids, one SOURCE, every node connected to it, every
\* edge between two nodes of the list, and one edge fewer than nodes.
TreeInput ==
  /\ UniqueNodeIds
  /\ UniqueEdgeIds
  /\ Cardinality({ k \in 1..Len(nodes) : nodes[k].type = "SOURCE" }) = 1
  /\ Connected = NodeIdsOf(nodes)
  /\ Len(edges) = Len(nodes) - 1

NodeById(id) == nodes[CHOOSE k \in 1..Len(nodes) : nodes[k].id = id]

\* The BFS-tree ancestors of id (its parent, the parent's parent, ...).
RECURSIVE Ancestors(_)
Ancestors(id) ==
  IF id \in DOMAIN parentMap
  THEN { parentMap[id].parentId } \cup Ancestors(parentMap[id].parentId)
  ELSE {}

Descendants(id) == { d \in DOMAIN parentMap : id \in Ancestors(d) }

\* Sum of the configured (P, Q) of the nodes whose ids are in S.
RECURSIVE SumLoads(_)
SumLoads(S) ==
  IF S = {} THEN [p |-> 0, q |-> 0]
  ELSE LET id == CHOOSE x \in S : TRUE
           rest == SumLoads(S \ {id})
           own == OwnLoad(NodeById(id))
       IN [p |-> rest.p + own.p, q |-> rest.q + own.q]

SweptBack == pc \in { "forward", "longest", "critical", "done" }

\* C3: on a tree network, after the backward sweep every node's aggregated
\* (P, Q) is its own (P, Q) plus that of all its BFS-tree descendants, and
\* the source's aggregate is the sum over every node of the input.
LoadConservation ==
  (SweptBack /\ TreeInput) =>
     /\ \A id \in NodeIdsOf(nodes) :
          accumulatedLoad[id] = SumLoads({id} \cup Descendants(id))
     /\ accumulatedLoad[SourceId] = SumLoads(NodeIdsOf(nodes))

LoadConservationWitness ==
  /\ SweptBack
  /\ TreeInput
  /\ \E id \in DOMAIN parentMap :
       /\ Ancestors(id) # { SourceId }
       /\ accumulatedLoad[id].q > 0
  /\ \E a, b \in DOMAIN parentMap : a # b /\ parentMap[a].parentId = parentMap[b].parentId

\* Every LOAD node of the input has loadKva = 0.
ZeroLoads == \A k \in 1..Len(nodes) : nodes[k].type = "LOAD" => nodes[k].loadKva = 0

\* C4: with every LOAD node at 0 kVA, every NodeResult has the source
\* voltage exactly, 1.0 per unit and no drop, and every EdgeResult has no
\* current and no loss.
ZeroLoadInvariant ==
  (Done /\ ZeroLoads) =>
     /\ \A id \in DOMAIN Result.nodeResults :
          /\ Result.nodeResults[id].voltageKv = sourceKv
          /\ Result.nodeResults[id].voltagePu = F
          /\ Result.nodeResults[id].dropPercent = 0
     /\ \A eid \in DOMAIN Result.edgeResults :
          /\ Result.edgeResults[eid].powerLossKw = 0
          /\ Result.edgeResults[eid].currentAmps = 0
     /\ Result.systemResult.totalLossKw = 0

ZeroLoadWitness ==
  /\ Done
  /\ ZeroLoads
  /\ sourceNode.loadKva > 0
  /\ Cardinality(DOMAIN Result.edgeResults) = 3
  /\ \E k \in 1..Len(edges) : edges[k].lengthMeters = 2000 * F
  /\ \E a, b \in DOMAIN parentMap : a # b /\ parentMap[a].parentId = parentMap[b].parentId

\* A chain source -> A -> B -> C: four nodes, each but the source the child
\* of the one before it, with positive loads and positive segment resistances.
ChainInput ==
  /\ TreeInput
  /\ Len(nodes) = 4
  /\ nodes[1].type = "SOURCE"
  /\ \A k \in 2..4 :
       /\ nodes[k].loadKva > 0
       /\ nodes[k].pf > 0
       /\ parentMap[nodes[k].id].parentId = nodes[k - 1].id
       /\ SegmentResistance(parentMap[nodes[k].id].edge) > 0

\* C5: on a chain with positive loads and resistances the per-unit voltages
\* do not increase along the chain.
ChainVoltageMonotone ==
  (Done /\ ChainInput) =>
     \A k \in 2..4 :
       Result.nodeResults[nodes[k - 1].id].voltagePu >= Result.nodeResults[nodes[k].id].voltagePu

\* C7: an input that holds a SOURCE node never makes the solve raise.
OnlyFatalErrorRaised == HasSource(nodes) => pc # "threw"

\* C8: once the forward sweep has started, and in the returned map, the
\* source's NodeResult is (source kV, 1.0 per unit, angle 0, no drop).
SourceResultFixed ==
  LET expected == [nodeId |-> SourceId, voltageKv |-> sourceKv, voltagePu |-> F,
                   angleDegrees |-> 0, dropPercent |-> 0]
  IN /\ SweptBack => nodeResults[SourceId] = expected
     /\ Done => Result.nodeResults[SourceId] = expected

SourceInCycleWitness ==
  /\ Done
  /\ \E k \in 1..Len(edges) : edges[k].source = SourceId /\ edges[k].target = SourceId
  /\ \E id \in DOMAIN Result.nodeResults : Result.nodeResults[id].voltagePu < F

\* C9: the EdgeResult of the edge that joins a node to its BFS parent has
\* isForward true exactly when the edge is labelled parent -> child; every
\* EdgeResult belongs to such an edge.
DirectionFlag ==
  (Done /\ UniqueEdgeIds) =>
     /\ \A c \in DOMAIN parentMap :
          LET e == parentMap[c].edge
              par == parentMap[c].parentId
          IN /\ e.id \in DOMAIN Result.edgeResults
             /\ Result.edgeResults[e.id].isForward = (e.source = par /\ e.target = c)
             /\ (e.source = c /\ e.target = par) => ~Result.edgeResults[e.id].isForward
     /\ \A eid \in DOMAIN Result.edgeResults :
          \E c \in DOMAIN parentMap : parentMap[c].edge.id = eid

DirectionFlagWitness ==
  /\ Done
  /\ \E a, b \in DOMAIN Result.edgeResults :
       Result.edgeResults[a].isForward /\ ~Result.edgeResults[b].isForward

\* The least voltagePu of a NodeResult map.
MinPu(res) ==
  CHOOSE v \in { res[id].voltagePu : id \in DOMAIN res } :
    \A id \in DOMAIN res : v <= res[id].voltagePu

\* C10 as stated: minVoltagePu is the least voltagePu of the NodeResult map
\* and criticalNodeId names an entry that has it.
CriticalNodeAlwaysNamed ==
  Done =>
     /\ Result.systemResult.minVoltagePu = MinPu(Result.nodeResults)
     /\ Result.systemResult.criticalNodeId \in DOMAIN Result.nodeResults
     /\ Result.nodeResults[Result.systemResult.criticalNodeId].voltagePu
          = Result.systemResult.minVoltagePu

\* C10 amended: minVoltagePu is the least voltagePu of the NodeResult map;
\* criticalNodeId is null when that minimum is 1.0 (no entry is below the
\* source) and otherwise names an entry whose voltagePu is the minimum.
CriticalNodeOrNull ==
  Done =>
     LET sys == Result.systemResult
     IN /\ sys.minVoltagePu = MinPu(Result.nodeResults)
        /\ IF sys.minVoltagePu < F
           THEN /\ sys.criticalNodeId \in DOMAIN Result.nodeResults
                /\ Result.nodeResults[sys.criticalNodeId].voltagePu = sys.minVoltagePu
           ELSE sys.criticalNodeId = Null

CriticalNodeWitness ==
  /\ Done
  /\ Result.systemResult.criticalNodeId # Null
  /\ Result.systemResult.criticalNodeId # nodes[Len(nodes)].id
  /\ Result.systemResult.minVoltagePu < 0

\* The ids of the NodeResult map whose voltagePu is the least of the map.
AtMinimum(res) == { id \in DOMAIN res : res[id].voltagePu = MinPu(res) }

\* Position of id in the traversal order (the order in which the NodeResult
\* entries are inserted).
TraversalIndex(id) == CHOOSE k \in 1..Len(levelOrder) : levelOrder[k] = id

\* Position of the first node of the input list that carries id.
ListIndex(id) ==
  CHOOSE k \in 1..Len(nodes) :
    nodes[k].id = id /\ \A j \in 1..(k - 1) : nodes[j].id # id

\* Several non-source nodes share the minimum, which is below the source.
TiedMinimum ==
  /\ Done
  /\ MinPu(Result.nodeResults) < F
  /\ Cardinality(AtMinimum(Result.nodeResults)) >= 2

\* The tie is exact: all but one of the tied nodes carry no aggregated load
\* and hang below a tied node, so that their voltage is a copy of their
\* parent's (zero current, zero drop), whatever the precision of the numbers.
ExactTie ==
  /\ TiedMinimum
  /\ \E head \in AtMinimum(Result.nodeResults) :
       \A id \in AtMinimum(Result.nodeResults) \ {head} :
         /\ accumulatedLoad[id] = [p |-> 0, q |-> 0]
         /\ parentMap[id].parentId \in AtMinimum(Result.nodeResults)

\* C11 as stated: among the nodes that share the minimum per-unit voltage
\* the critical node is the one that comes first in traversal order.
CriticalNodeFirstInTraversal ==
  ExactTie =>
     \A id \in AtMinimum(Result.nodeResults) :
       TraversalIndex(Result.systemResult.criticalNodeId) <= TraversalIndex(id)

\* C11 amended: among the nodes that share the minimum per-unit voltage the
\* critical node is the one that comes first in the input node list.
CriticalNodeFirstInNodeList ==
  TiedMinimum =>
     /\ Result.systemResult.criticalNodeId \in AtMinimum(Result.nodeResults)
     /\ \A id \in AtMinimum(Result.nodeResults) :
          ListIndex(Result.systemResult.criticalNodeId) <= ListIndex(id)

TiedMinimumWitness ==
  /\ ExactTie
  /\ \E id \in AtMinimum(Result.nodeResults) :
       TraversalIndex(id) < TraversalIndex(Result.systemResult.criticalNodeId)

\* Sum of powerLossKw over the entries of an EdgeResult map.
RECURSIVE SumLoss(_)
SumLoss(res) ==
  IF DOMAIN res = {} THEN 0
  ELSE LET eid == CHOOSE x \in DOMAIN res : TRUE
       IN res[eid].powerLossKw
            + SumLoss([x \in DOMAIN res \ {eid} |-> res[x]])

\* C12: after a successful solve on unique edge ids totalLossKw is the sum
\* of powerLossKw over the entries of the EdgeResult map, and no edge id
\* is the parent edge of two nodes.
TotalLossIsSumOfEdgeLosses ==
  (Done /\ UniqueEdgeIds) =>
     /\ Result.systemResult.totalLossKw = SumLoss(Result.edgeResults)
     /\ \A a, b \in DOMAIN parentMap :
          parentMap[a].edge.id = parentMap[b].edge.id => a = b

\* A solved network with parallel edges or a cycle, in which two edges
\* carry a loss and one edge has no EdgeResult.
TotalLossWitness ==
  /\ Done
  /\ UniqueEdgeIds
  /\ Len(edges) > Cardinality(DOMAIN Result.edgeResults)
  /\ \E a, b \in DOMAIN Result.edgeResults :
       /\ a # b
       /\ Result.edgeResults[a].powerLossKw > 0
       /\ Result.edgeResults[b].powerLossKw > 0

\* The edge of the input that carries id (ids unique).
EdgeById(id) == edges[CHOOSE k \in 1..Len(edges) : edges[k].id = id]

\* The parent edges met on the way from id up to the root of the BFS tree.
RECURSIVE PathEdges(_)
PathEdges(id) ==
  IF id \in DOMAIN parentMap
  THEN << parentMap[id].edge >> \o PathEdges(parentMap[id].parentId)
  ELSE << >>

RECURSIVE SumLengths(_)
SumLengths(es) == IF es = << >> THEN 0 ELSE Head(es).lengthMeters + SumLengths(Tail(es))

\* The greatest cumulative distance of a node that has a result.
MaxDistanceOf(dist) ==
  CHOOSE d \in { dist[id] : id \in DOMAIN dist } : \A id \in DOMAIN dist : dist[id] <= d

Ends(e) == { e.source, e.target }

\* C13: longestPathEdgeIds lists the parent edges from a reachable node of
\* greatest cumulative distance back to the source: consecutive edges share
\* a node, the last edge is incident to the source, the lengths add up to
\* the greatest cumulative distance, and the list is empty when only the
\* source is reachable.
LongestPathIsFarthestToRoot ==
  (Done /\ UniqueEdgeIds) =>
     LET path == Result.systemResult.longestPathEdgeIds
         far == MaxDistanceOf(nodeDistances)
     IN /\ \E f \in DOMAIN Result.nodeResults :
             /\ nodeDistances[f] = far
             /\ path = [k \in 1..Len(PathEdges(f)) |-> PathEdges(f)[k].id]
        /\ \A k \in 1..(Len(path) - 1) :
             Ends(EdgeById(path[k])) \cap Ends(EdgeById(path[k + 1])) # {}
        /\ path # << >> => SourceId \in Ends(EdgeById(path[Len(path)]))
        /\ SumLengths([k \in 1..Len(path) |-> EdgeById(path[k])]) = far
        /\ DOMAIN Result.nodeResults = { SourceId } => path = << >>

\* A longest path of two or more edges in a network that also has a
\* reachable node off that path and an edge outside the BFS tree.
LongestPathWitness ==
  /\ Done
  /\ UniqueEdgeIds
  /\ Len(Result.systemResult.longestPathEdgeIds) >= 2
  /\ Len(edges) > Cardinality(DOMAIN Result.edgeResults)
  /\ \E id \in DOMAIN Result.nodeResults :
       /\ id # SourceId
       /\ \A k \in 1..Len(Result.systemResult.longestPathEdgeIds) :
            id \notin Ends(EdgeById(Result.systemResult.longestPathEdgeIds[k]))

\* Resistance per km x length / 1000 of each edge of es, added up; an id
\* outside the catalog counts as the first catalog entry.
RECURSIVE SumResistances(_)
SumResistances(es) ==
  IF es = << >> THEN 0
  ELSE LET e == Head(es)
           perKm == IF \E k \in 1..Len(CONDUCTORS) : CONDUCTORS[k].id = e.conductorId
                    THEN CONDUCTORS[CHOOSE k \in 1..Len(CONDUCTORS) :
                                      CONDUCTORS[k].id = e.conductorId].resistancePerKm
                    ELSE CONDUCTORS[1].resistancePerKm
       IN FMul(perKm, FDiv(e.lengthMeters, 1000 * F)) + SumResistances(Tail(es))

\* C14: criticalPathLengthMeters and criticalPathResistanceOhms are the sums
\* of the lengths and of the conductor resistances of the edges on the
\* BFS-tree path between the source and the critical node, and both are 0
\* when there is no critical node or it is the source.
CriticalPathTotals ==
  Done =>
     LET sys == Result.systemResult
         crit == sys.criticalNodeId
     IN IF crit = Null \/ crit = SourceId
        THEN sys.criticalPathLengthMeters = 0 /\ sys.criticalPathResistanceOhms = 0
        ELSE /\ sys.criticalPathLengthMeters = SumLengths(PathEdges(crit))
             /\ sys.criticalPathResistanceOhms = SumResistances(PathEdges(crit))

\* A critical node two or more edges from the source, with an edge of
\* unknown conductor on its path, in a network with edges off that path.
CriticalPathWitness ==
  /\ Done
  /\ Result.systemResult.criticalNodeId # Null
  /\ Len(PathEdges(Result.systemResult.criticalNodeId)) >= 2
  /\ Len(PathEdges(Result.systemResult.criticalNodeId)) < Len(edges)
  /\ \E k \in 1..Len(PathEdges(Result.systemResult.criticalNodeId)) :
       PathEdges(Result.systemResult.criticalNodeId)[k].conductorId = UnknownConductor
  /\ Result.systemResult.criticalPathResistanceOhms > 0

RECURSIVE SumKva(_)
SumKva(ns) == IF ns = << >> THEN 0 ELSE Head(ns).loadKva + SumKva(Tail(ns))

\* C15: totalLoadKva is the sum of loadKva over every node of the input, and
\* totalSystemLengthMeters / totalSystemResistanceOhms are the sums over every
\* edge of the input, whether or not the node or edge has a result.
RawInputTotals ==
  Done =>
     /\ Result.systemResult.totalLoadKva = SumKva(nodes)
     /\ Result.systemResult.totalSystemLengthMeters = SumLengths(edges)
     /\ Result.systemResult.totalSystemResistanceOhms = SumResistances(edges)

\* A solve that leaves a loaded node without a NodeResult and an edge
\* between two nodes of the list without an EdgeResult.
RawInputTotalsWitness ==
  /\ Done
  /\ \E k \in 1..Len(nodes) :
       nodes[k].id \notin DOMAIN Result.nodeResults /\ nodes[k].loadKva > 0
  /\ \E k \in 1..Len(edges) :
       /\ edges[k].id \notin DOMAIN Result.edgeResults
       /\ Ends(edges[k]) \subseteq NodeIdsOf(nodes)
       /\ edges[k].conductorId = UnknownConductor
  /\ DOMAIN Result.edgeResults # {}

\* The critical node lies nearer to the source than the farthest node.
CriticalNearerThanFarthest ==
  /\ Done
  /\ TreeInput
  /\ Result.systemResult.criticalNodeId # Null
  /\ nodeDistances[Result.systemResult.criticalNodeId] < MaxDistanceOf(nodeDistances)

\* C16: on a tree network whose minimum-voltage node is not a node of
\* greatest cumulative distance, the farthest node is not the critical node,
\* the longest path is not the path to the critical node, and
\* criticalPathLengthMeters is less than the length of longestPathEdgeIds.
LongestAndCriticalDiverge ==
  CriticalNearerThanFarthest =>
     LET sys == Result.systemResult
         toCritical == PathEdges(sys.criticalNodeId)
     IN /\ farthestNodeId # sys.criticalNodeId
        /\ sys.longestPathEdgeIds # [k \in 1..Len(toCritical) |-> toCritical[k].id]
        /\ sys.criticalPathLengthMeters
             < SumLengths([k \in 1..Len(sys.longestPathEdgeIds) |->
                             EdgeById(sys.longestPathEdgeIds[k])])

\* The fork with a heavily loaded one-edge branch (n2, 50 kVA) and a longer,
\* lightly loaded two-edge branch (n3, n4 at 10 kVA each): n4 is farthest,
\* n2 has the lowest voltage.
DivergenceWitness ==
  /\ CriticalNearerThanFarthest
  /\ Result.systemResult.criticalNodeId = "n2"
  /\ farthestNodeId = "n4"
  /\ parentMap["n2"].parentId = "n1"
  /\ parentMap["n4"].parentId = "n3"
  /\ parentMap["n3"].parentId = "n1"
  /\ nodes[2].loadKva = 50 * F
  /\ nodes[3].loadKva = 10 * F
  /\ nodes[4].loadKva = 10 * F
  /\ Result.nodeResults["n4"].voltagePu < F

\* The edge e with a conductor id outside the catalog replaced by the id of
\* the first catalog entry.
Defaulted(e) ==
  IF \E k \in 1..Len(CONDUCTORS) : CONDUCTORS[k].id = e.conductorId
  THEN e
  ELSE [e EXCEPT !.conductorId = CONDUCTORS[1].id]

DefaultedEdges == [k \in 1..Len(edges) |-> Defaulted(edges[k])]

RECURSIVE SumSegmentResistances(_)
SumSegmentResistances(es) ==
  IF es = << >> THEN 0
  ELSE SegmentResistance(Defaulted(Head(es))) + SumSegmentResistances(Tail(es))

\* Every endpoint of every edge is the id of a node of the list.
EndpointsExist == \A k \in 1..Len(edges) : Ends(edges[k]) \subseteq NodeIdsOf(nodes)

\* C17: a solve is what it would be with every conductor id outside the
\* catalog replaced by the first catalog entry's id: each NodeResult and
\* EdgeResult is the one the segment computation gives for the replaced edge
\* from the same parent voltage and aggregated load, the resistance totals
\* are those of the replaced edge list, and an input with a source and
\* whole edges raises nothing.
UnknownConductorAsFirst ==
  /\ (HasSource(nodes) /\ EndpointsExist) => pc # "threw"
  /\ (Done /\ UniqueEdgeIds) =>
       /\ \A c \in DOMAIN parentMap :
            LET info == parentMap[c]
                seg == Segment(Defaulted(info.edge), accumulatedLoad[c],
                               Result.nodeResults[info.parentId].voltageKv, sourceKv)
            IN /\ Result.nodeResults[c] =
                    [nodeId |-> c, voltageKv |-> seg.nodeVoltageKv,
                     voltagePu |-> seg.nodeVoltagePu, angleDegrees |-> 0,
                     dropPercent |-> seg.dropPercent]
               /\ Result.edgeResults[info.edge.id] =
                    [edgeId |-> info.edge.id, currentAmps |-> seg.currentAmps,
                     loadingPercent |-> seg.loadingPercent,
                     powerLossKw |-> seg.lossKw, voltageDropKv |-> seg.vDropLine,
                     isForward |-> info.edge.source = info.parentId]
       /\ Result.systemResult.totalSystemResistanceOhms
            = SystemTotals(DefaultedEdges, Len(edges)).resistance
       /\ Result.systemResult.criticalPathResistanceOhms
            = IF Result.systemResult.criticalNodeId = Null THEN 0
              ELSE SumSegmentResistances(PathEdges(Result.systemResult.criticalNodeId))

\* A solve in which an edge of unknown conductor carries current, with a
\* loss, on the way to the critical node.
UnknownConductorWitness ==
  /\ Done
  /\ UniqueEdgeIds
  /\ Result.systemResult.criticalNodeId # Null
  /\ \E k \in 1..Len(PathEdges(Result.systemResult.criticalNodeId)) :
       LET e == PathEdges(Result.systemResult.criticalNodeId)[k]
       IN /\ e.conductorId = UnknownConductor
          /\ Result.edgeResults[e.id].powerLossKw > 0
          /\ Result.edgeResults[e.id].loadingPercent > 0

\* C18: when the solve raises the fatal no-source error the App's results
\* are empty NodeResult and EdgeResult maps and a SystemResult with every
\* number 0, criticalNodeId null and an empty longest path; the App always
\* gets a value for its results, so the error goes no further.
NoSourceGivesDefaults ==
  (pc = "threw" /\ thrown = "No Source Node found") =>
     /\ results = << >> => ENABLED ResultsCatch
     /\ results # << >> =>
          LET sys == results[1].systemResult
          IN /\ results[1].nodeResults = EmptyMap
             /\ results[1].edgeResults = EmptyMap
             /\ \A f \in DOMAIN sys \ { "criticalNodeId", "longestPathEdgeIds" } :
                  sys[f] = 0
             /\ sys.criticalNodeId = Null
             /\ sys.longestPathEdgeIds = << >>

NoSourceDefaultsWitness ==
  /\ thrown = "No Source Node found"
  /\ Len(edges) > 0
  /\ results # << >>

\* ------------------------------------------------------ claims on editing
Present == history.present
SourcesOf(ns) == { k \in 1..Len(ns) : ns[k].type = "SOURCE" }

\* C19: the present network always holds exactly one SOURCE node, so the
\* solver's source lookup succeeds on it, and a deleteSelection aimed at the
\* SOURCE node returns the history it was given (past, present and future).
SourceNeverDeleted ==
  /\ Cardinality(SourcesOf(Present.nodes)) = 1
  /\ FindSource(Present.nodes) # NoNode
  /\ \A k \in SourcesOf(Present.nodes) :
       deleteSelection(history, [type |-> "NODE", id |-> Present.nodes[k].id]) = history

\* After a deletion and a new branch.
SourceKeptWitness ==
  /\ Cardinality(SourcesOf(Present.nodes)) = 1
  /\ Len(history.past) >= 2
  /\ \E k \in 1..Len(Present.nodes) : Present.nodes[k].id \notin NodeIdsOf(INITIAL_NODES)
  /\ NodeIdsOf(INITIAL_NODES) \ NodeIdsOf(Present.nodes) # {}

\* Ids joined to the ids of S by one edge of es, in either direction.
StepIn(S, es) ==
  S \cup { es[k].target : k \in { j \in 1..Len(es) : es[j].source \in S } }
    \cup { es[k].source : k \in { j \in 1..Len(es) : es[j].target \in S } }

RECURSIVE ClosureIn(_, _)
ClosureIn(S, es) == IF StepIn(S, es) = S THEN S ELSE ClosureIn(StepIn(S, es), es)

\* The node ids of a network that are connected to its SOURCE node.
ReachableIn(net) ==
  ClosureIn({ net.nodes[k].id : k \in SourcesOf(net.nodes) }, net.edges)
    \cap NodeIdsOf(net.nodes)

\* C20: a deleteSelection of a LOAD node leaves no node behind that was
\* connected to the source before and is not connected to it afterwards.
DeleteRemovesDownstream ==
  [][\A id \in NodeIdsOf(Present.nodes) :
       (/\ TypeOf(Present.nodes, id) = "LOAD"
        /\ history' = deleteSelection(history, [type |-> "NODE", id |-> id]))
       => \A n \in ReachableIn(Present) \cap NodeIdsOf(history'.present.nodes) :
            n \in ReachableIn(history'.present)]_vars

DefaultNetwork == [nodes |-> INITIAL_NODES, edges |-> INITIAL_EDGES]

\* C21: a reset makes the default network the present one, and an undo right
\* after it brings back the network (nodes and edges) that was present before
\* the reset, on top of the same undo stack.
ResetKeptInHistory ==
  /\ reset(history).present = DefaultNetwork
  /\ undo(reset(history)).present = Present
  /\ undo(reset(history)).past = history.past

\* A reset of an edited network has happened: the default network is present,
\* the edited one is on top of the undo stack, and undo brings it back.
ResetOfEditedWitness ==
  /\ Len(history.past) >= 2
  /\ Present = DefaultNetwork
  /\ history.future = << >>
  /\ history.past[Len(history.past)] # DefaultNetwork
  /\ undo(history).present = history.past[Len(history.past)]

\* ----------------------------------------------------- claims on ordering
\* The positions of id in the traversal order.
PositionsOf(id) == { k \in 1..Len(levelOrder) : levelOrder[k] = id }

\* The nodes whose BFS parent is id.
ChildrenOf(id) == { c \in DOMAIN parentMap : parentMap[c].parentId = id }

\* C22: in the traversal order every node with a parent stands strictly
\* after its parent; the forward sweep computes a node's NodeResult when the
\* parent's NodeResult is in the map; the backward sweep adds a node's
\* aggregate to its parent when every child of the node has been added to
\* the node already.
CausalOrdering ==
  /\ \A id \in DOMAIN parentMap :
       /\ PositionsOf(parentMap[id].parentId) # {}
       /\ \A k \in PositionsOf(id) :
            \E j \in PositionsOf(parentMap[id].parentId) : j < k
  /\ (pc = "forward" /\ i <= Len(levelOrder) /\ levelOrder[i] # sourceNode.id) =>
       /\ levelOrder[i] \in DOMAIN parentMap
       /\ parentMap[levelOrder[i]].parentId \in DOMAIN nodeResults
       /\ levelOrder[i] \notin DOMAIN nodeResults
  /\ (pc = "backward" /\ i >= 1) =>
       \A c \in ChildrenOf(levelOrder[i]) : \A k \in PositionsOf(c) : k > i

\* The forward sweep stands at a node two levels below the source whose
\* parent has its result, in a network where the traversal order is not the
\* order of the node list.
CausalOrderingWitness ==
  /\ pc = "forward"
  /\ i <= Len(levelOrder)
  /\ levelOrder[i] \in DOMAIN parentMap
  /\ parentMap[levelOrder[i]].parentId # sourceNode.id
  /\ parentMap[levelOrder[i]].parentId \in DOMAIN nodeResults
  /\ ChildrenOf(parentMap[levelOrder[i]].parentId) = { levelOrder[i] }
  /\ \E j, k \in 1..Len(levelOrder) :
       j < k /\ ListIndex(levelOrder[j]) > ListIndex(levelOrder[k])

\* The solve has ended: it returned or it raised.
Ended == pc \in { "done", "threw" }

\* The BFS loop is over.
Traversed == HasSource(nodes) /\ pc \notin { "start", "bfs" }

\* Whether edge e joins the ids a and b, in either direction.
Joins(e, a, b) == (e.source = a /\ e.target = b) \/ (e.source = b /\ e.target = a)

\* The ids that an edge joins to id.
AdjacentTo(id) ==
  { Neighbor(edges[k], id) : k \in { j \in 1..Len(edges) : id \in Ends(edges[j]) } }

\* The first edge of the edge list that joins a and b.
FirstEdgeBetween(a, b) ==
  edges[CHOOSE k \in 1..Len(edges) :
          /\ Joins(edges[k], a, b)
          /\ \A j \in 1..(k - 1) : ~Joins(edges[j], a, b)]

\* After the BFS loop: every id connected to the source stands exactly once
\* in the traversal order and nothing else stands in it; every such id but
\* the source has one parent entry, whose parent is the earliest visited id
\* adjacent to it and whose edge is the first edge that joins the two; a
\* returned EdgeResult map holds the parent edges and no other edge.
TraversalTree ==
  Traversed =>
     /\ LET connected == Connected
        IN /\ \A id \in connected : Cardinality(PositionsOf(id)) = 1
           /\ \A k \in 1..Len(levelOrder) : levelOrder[k] \in connected
           /\ DOMAIN parentMap = connected \ { SourceId }
     /\ \A id \in DOMAIN parentMap :
          LET parentId == parentMap[id].parentId
          IN /\ parentId \in AdjacentTo(id)
             /\ \A a \in AdjacentTo(id) : TraversalIndex(parentId) <= TraversalIndex(a)
             /\ parentMap[id].edge = FirstEdgeBetween(parentId, id)
     /\ Done => DOMAIN Result.edgeResults = { parentMap[id].edge.id : id \in DOMAIN parentMap }

\* C23: every solve on an input with a SOURCE node ends, and returns when
\* every edge joins nodes of the list; the traversal visits every connected
\* id once through the first qualifying edge, and the other edges get no
\* EdgeResult.
SolveTerminates ==
  /\ []TraversalTree
  /\ <>(Ended /\ ((HasSource(nodes) /\ EndpointsExist) => (Done /\ results # << >>)))

\* A returned solve of a network with a cycle or parallel edges: an edge
\* between two visited nodes has no EdgeResult, and a parent edge was chosen
\* among several edges joining the same two nodes.
SolveTerminatesWitness ==
  /\ Done
  /\ results # << >>
  /\ \E k \in 1..Len(edges) :
       /\ Ends(edges[k]) \subseteq Connected
       /\ edges[k].id \notin DOMAIN Result.edgeResults
  /\ \E id \in DOMAIN parentMap :
       Cardinality({ k \in 1..Len(edges) :
                       Joins(edges[k], parentMap[id].parentId, id) }) > 1
  /\ Len(Result.systemResult.longestPathEdgeIds) >= 2

\* ------------------------------------------------ claims on the fallback
\* C24: no node of the forward sweep takes its base voltage from the
\* `|| sourceKv` fallback: the parent's voltage is used for every node.
FallbackNeverTaken == fallbackTaken = {}

\* ----------------------------------------------- claims on the undo stack
\* slice(-50) in pushState
HistoryLimit == 50

\* C25: the undo stack never holds more than 50 entries.
PastWithinLimit == Len(history.past) <= HistoryLimit

\* C26: with a non-empty past, undo and then redo gives back the same past,
\* present and future; with a non-empty future, redo and then undo does;
\* undo on an empty past and redo on an empty future change nothing.
UndoRedoRoundTrip ==
  /\ Len(history.past) > 0 => redo(undo(history)) = history
  /\ Len(history.future) > 0 => undo(redo(history)) = history
  /\ Len(history.past) = 0 => undo(history) = history
  /\ Len(history.future) = 0 => redo(history) = history

\* In the middle of the history, after an undo of an edit: both round trips
\* apply and each of undo and redo alone changes the history.
UndoRedoWitness ==
  /\ Len(history.past) > 0
  /\ Len(history.future) > 0
  /\ history.past[Len(history.past)] # Present
  /\ history.future[1] # Present
  /\ undo(history) # history
  /\ redo(history) # history
  /\ redo(undo(history)) = history

\* Whether every edge of net has its source and its target among the ids of
\* the nodes of net.
Integral(net) ==
  \A k \in 1..Len(net.edges) :
    { net.edges[k].source, net.edges[k].target } \subseteq NodeIdsOf(net.nodes)

\* C27: every edge of the present network, and of every network on the
\* undo and redo stacks, has both endpoints among the ids of that network's
\* nodes.
ReferentialIntegrity ==
  /\ Integral(Present)
  /\ \A k \in 1..Len(history.past) : Integral(history.past[k])
  /\ \A k \in 1..Len(history.future) : Integral(history.future[k])

\* After a branch was created and a node with edges was deleted.
ReferentialIntegrityWitness ==
  /\ Integral(Present)
  /\ Len(history.past) >= 2
  /\ \E k \in 1..Len(Present.edges) : Present.edges[k].id \notin { "e1", "e2", "e3", "e4", "e5" }
  /\ NodeIdsOf(INITIAL_NODES) \ NodeIdsOf(Present.nodes) # {}
  /\ Len(Present.edges) < Len(INITIAL_EDGES)

\* The ids of the nodes and of the edges of the networks on the two stacks.
StackedNodeIds ==
  UNION { NodeIdsOf(history.past[k].nodes) : k \in 1..Len(history.past) }
    \cup UNION { NodeIdsOf(history.future[k].nodes) : k \in 1..Len(history.future) }
StackedEdgeIds ==
  UNION { NodeIdsOf(history.past[k].edges) : k \in 1..Len(history.past) }
    \cup UNION { NodeIdsOf(history.future[k].edges) : k \in 1..Len(history.future) }

\* Selections that name nothing of the present network, left over from a
\* network of one of the stacks.
StaleSelections ==
  { [type |-> "NODE", id |-> id] : id \in StackedNodeIds \ NodeIdsOf(Present.nodes) }
    \cup { [type |-> "EDGE", id |-> id] : id \in StackedEdgeIds \ NodeIdsOf(Present.edges) }

\* C28: a deleteSelection whose selection names no node or edge of the
\* present network returns the history it was given.
StaleDeleteChangesNothing ==
  \A selection \in StaleSelections : deleteSelection(history, selection) = history

\* Whether the elements of list carry pairwise distinct ids.
DistinctIds(list) == \A j, k \in 1..Len(list) : list[j].id = list[k].id => j = k

\* C29: the node ids of the present network are pairwise distinct, and so
\* are its edge ids.
IdsStayUnique == DistinctIds(Present.nodes) /\ DistinctIds(Present.edges)

\* ------------------------------------------------- claims on the report
\* C30: the solver's feederEfficiency lies between 0 and 100 per cent, and
\* the 'Feeder Efficiency' row of the report shows that same percentage,
\* never more than 100.
ReportShowsSolverEfficiency ==
  report # << >> =>
     /\ results[1].systemResult.feederEfficiency \in 0..(100 * F)
     /\ report[1].feederEfficiency = results[1].systemResult.feederEfficiency
     /\ report[1].feederEfficiency <= 100 * F

====
